---- MODULE Spec2Model ----
(***************************************************************************)
(* amFOSS Daemon (amd): the recurring task scheduler and the jobs it       *)
(* drives.                                                                 *)
(*                                                                         *)
(* Each registered job (an implementation of the Task trait) is driven by  *)
(* its own loop: compute the delay until the job's time of day, sleep,     *)
(* execute, repeat.  Time is the wall clock of the organizational timezone *)
(* (Asia/Kolkata, no daylight saving), in seconds since local midnight.    *)
(*                                                                         *)
(* The sources hold two generations of the status-update job: the one of   *)
(* src/src/tasks.rs (run returns nothing and panics when the member fetch  *)
(* fails) and the one of src/src/tasks/status_update.rs (run returns a     *)
(* Result).  scheduler.rs and utils/time.rs are not among the sources; the *)
(* scheduler loop and the clock utilities are modelled from the design     *)
(* specification (sections 4.1 and 4.3).                                   *)
(***************************************************************************)
EXTENDS Integers, Sequences, FiniteSets, Bags, TLC

VARIABLES
    now,        \* wall clock of the organizational timezone, seconds since midnight
    main_pc,    \* position of main: "connecting" (setup runs) | "serving"
    setup_at,   \* the calls of setup that have returned
    process_up, \* the process is alive
    loops,      \* the per-job loops the scheduler spawned, in spawn order
    q_hour,     \* clock query: target hour
    q_minute,   \* clock query: target minute
    q_task,     \* clock query: the task whose run_in is asked, or "none"
    q_result,   \* clock query: the duration returned, -1 before the call
    q_calls,    \* clock query: 1 when the call was made, 0 before
    sim,        \* the simulated-clock scenario: whether it is on, the seconds
                \* advanced since the scheduler's start, the executions logged
    env,        \* the environment: each setting is "ok", "missing" or "malformed"
    served,     \* the reaction handler: the roles the member holds, and whether
                \* jobs were WAITING, RUNNING when the last event was handled
    su,         \* one run of status_update_check: its position, data and log
    la,         \* one run of check_lab_attendance: its input and outcome
    hs          \* one run of get_leaderboard_stats: its input and outcome

vars ==
    <<now, main_pc, setup_at, process_up, loops, q_hour, q_minute, q_task, q_result, q_calls, sim,
      env, served, su, la, hs>>

(***************************************************************************)
(* Bounds of the model.                                                    *)
(***************************************************************************)
\* Largest advance of the clock in one step, in hours.
TickHours == 6
\* The clock queries sample the minutes of an hour in steps of MinuteStep
\* (and minute 59), at the seconds 0, 1 and 59, over the days 0..QueryDays.
MinuteStep == 15
QueryDays == 1
\* The most members the remote data API holds, and the most messages found
\* in the group channels.
MaxMembers == 3
MaxUpdates == 2
\* The most records of an attendance list.
MaxRecords == 2
\* The most entries of the streak list fetch_streaks returns.
MaxStreaks == 3
\* The most reaction handlers in flight at a time.
MaxHandlers == 2

HourSecs == 60 * 60
DayLen == 24 * HourSecs
TickStep == TickHours * HourSecs

Min(S) == CHOOSE x \in S : \A y \in S : x <= y

(***************************************************************************)
(* Clock utilities (design specification 4.1).                             *)
(***************************************************************************)
\* The instant hour:minute:00 of the day that holds t.
TodayAt(t, hour, minute) == (t \div DayLen) * DayLen + hour * HourSecs + minute * 60

duration_until_at_or_before(t, hour, minute) ==
    IF t <= TodayAt(t, hour, minute)
    THEN TodayAt(t, hour, minute) - t
    ELSE TodayAt(t, hour, minute) + DayLen - t

\* duration_until: from t to the next future occurrence of hour:minute,
\* today if it has not yet passed, otherwise tomorrow.
duration_until(t, hour, minute) ==
    IF t < TodayAt(t, hour, minute)
    THEN TodayAt(t, hour, minute) - t
    ELSE TodayAt(t, hour, minute) + DayLen - t

\* utils::time::time_until reads the clock itself.
time_until(hour, minute) == duration_until(now, hour, minute)

\* most_recent_occurrence: the latest instant at or before t whose time of
\* day is hour:minute, today's when t is at or after it, else yesterday's.
most_recent_occurrence(t, hour, minute) ==
    IF t >= TodayAt(t, hour, minute)
    THEN TodayAt(t, hour, minute)
    ELSE TodayAt(t, hour, minute) - DayLen

\* tasks/status_update.rs, get_report_config: updates count from 20:00 of
\* the day before the organizational date of t.
get_report_config(t) ==
    [time_valid_from |-> ((t \div DayLen) - 1) * DayLen + 20 * HourSecs,
     hour |-> 20, minute |-> 0]

(***************************************************************************)
(* The jobs: the implementations of Task, named by name().                 *)
(***************************************************************************)
\* tasks.rs: get_tasks registers the status-update job of tasks.rs.
get_tasks == <<"StatusUpdateCheck">>

\* The report jobs of tasks/status_update.rs and tasks/lab_attendance.rs,
\* registered by the parent module of these two files.
report_jobs == <<"Status Update Check", "Lab Attendance Check">>

registered_tasks == get_tasks \o report_jobs

TaskNames == {registered_tasks[i] : i \in 1..Len(registered_tasks)}

\* The (hour, minute) each job hands to time_until in run_in.
Schedule(task) ==
    CASE task = "StatusUpdateCheck" -> [hour |-> 5, minute |-> 0]
      [] task = "Status Update Check" -> [hour |-> 5, minute |-> 0]
      [] task = "Lab Attendance Check" -> [hour |-> 18, minute |-> 0]

run_in_fixed_period(task) == DayLen

run_in_swapped(task) == time_until(Schedule(task).minute, Schedule(task).hour)

run_in_twice_daily(task) ==
    Min({time_until(Schedule(task).hour, Schedule(task).minute),
         time_until((Schedule(task).hour + 12) % 24, Schedule(task).minute)})

\* Task::run_in
run_in(task) == time_until(Schedule(task).hour, Schedule(task).minute)

\* The time of day a job is meant to run at.
TargetTimeOfDay(task) == Schedule(task).hour * HourSecs + Schedule(task).minute * 60

(***************************************************************************)
(* One execution of a job.  faults is the set of external operations that  *)
(* fail when the execution invokes them; the result is "ok", "err" (a      *)
(* failure value returned by run) or "panic" (run unwinds).                *)
(***************************************************************************)
\* The external operations each job's run invokes.
OpsOf(task) ==
    CASE task = "StatusUpdateCheck" -> {"fetch_members", "channel_messages", "say"}
      [] task = "Status Update Check" ->
            {"channel_messages", "fetch_members", "streak_mutation", "fetch_streaks",
             "send_message"}
      [] task = "Lab Attendance Check" ->
            {"fetch_attendance", "local_time", "get_current_user", "send_message"}

\* The operations of the remote data API and of the messaging platform
\* ("local_time" is the host's local calendar, not a remote operation).
RemoteOps ==
    {"fetch_members", "channel_messages", "say", "streak_mutation", "fetch_streaks",
     "send_message", "fetch_attendance", "get_current_user"}

\* tasks.rs, StatusUpdateCheck::run: the member fetch is unwrapped with
\* expect; a failed message fetch is printed and skipped; the result of say
\* is dropped; run returns nothing.
StatusUpdateCheck_run(faults) ==
    IF "fetch_members" \in faults THEN "panic" ELSE "ok"

status_update_check_unwrapping(faults) ==
    IF "channel_messages" \in faults THEN "err"
    ELSE IF "fetch_members" \in faults THEN "panic"
    ELSE IF "streak_mutation" \in faults THEN "err"
    ELSE IF "fetch_streaks" \in faults THEN "err"
    ELSE IF "send_message" \in faults THEN "err"
    ELSE "ok"

\* tasks/status_update.rs, status_update_check: every step is propagated
\* with the ? operator, in this order (the member list is taken to be
\* non-empty, so that a streak mutation is issued).
status_update_check(faults) ==
    IF "channel_messages" \in faults THEN "err"
    ELSE IF "fetch_members" \in faults THEN "err"
    ELSE IF "streak_mutation" \in faults THEN "err"
    ELSE IF "fetch_streaks" \in faults THEN "err"
    ELSE IF "send_message" \in faults THEN "err"
    ELSE "ok"

\* tasks/lab_attendance.rs, check_lab_attendance: the fetch is propagated;
\* parse_time unwraps the host-local date-time with expect; both message
\* senders fetch the current user and send, each propagated.
check_lab_attendance(faults) ==
    IF "fetch_attendance" \in faults THEN "err"
    ELSE IF "local_time" \in faults THEN "panic"
    ELSE IF "get_current_user" \in faults THEN "err"
    ELSE IF "send_message" \in faults THEN "err"
    ELSE "ok"

\* Task::run
run(task, faults) ==
    CASE task = "StatusUpdateCheck" -> StatusUpdateCheck_run(faults)
      [] task = "Status Update Check" -> status_update_check(faults)
      [] task = "Lab Attendance Check" -> check_lab_attendance(faults)

(***************************************************************************)
(* The scheduler (design specification 4.3): one independent loop per      *)
(* registered job.                                                         *)
(***************************************************************************)
NewLoop(task) ==
    [task |-> task, pc |-> "IDLE", sleep_left |-> 0, last |-> "none",
     started_at |-> -1, prev_slow |-> FALSE]

\* run_scheduler spawns one loop per registered task and returns.
run_scheduler(ls) ==
    ls \o [i \in 1..Len(registered_tasks) |-> NewLoop(registered_tasks[i])]

setup_calls_scheduler_twice == <<"register_globally", "run_scheduler", "run_scheduler">>

setup_calls_scheduler_first == <<"run_scheduler", "register_globally">>

\* main.rs, the framework's setup: the calls it makes, in order.
setup_calls == <<"register_globally", "run_scheduler">>

\* The calls of setup that can fail (run_scheduler returns nothing).
SetupFailures == {"register_globally"}

\* The loops after a call of setup has returned.
apply_call(call, ls) == IF call = "run_scheduler" THEN run_scheduler(ls) ELSE ls

setup_returns_after_the_jobs(at, ls) ==
    at = Len(setup_calls) /\ \A l \in DOMAIN ls : ls[l].pc \in {"IDLE", "DEAD"}

\* Setup returns Ok(data) when its calls have returned: run_scheduler has
\* spawned the loops and does not wait for them.
setup_returns(at, ls) == at = Len(setup_calls)

(***************************************************************************)
(* The environment main reads (main.rs) and the remote data API reads      *)
(* (graphql/queries.rs).                                                   *)
(***************************************************************************)
Settings == {"AMD_RUST_ENV", "ENABLE_DEBUG_LIBRARIES", "DISCORD_TOKEN", "OWNER_ID", "ROOT_URL"}

\* The settings the design specification names as required: the remote API
\* endpoint, the platform credentials, the owner identity, the debug flag.
RequiredSettings == {"ROOT_URL", "DISCORD_TOKEN", "OWNER_ID", "ENABLE_DEBUG_LIBRARIES"}

EnvOk == [s \in Settings |-> "ok"]

\* Any string is a well-formed AMD_RUST_ENV.
Environments ==
    {e \in [Settings -> {"ok", "missing", "malformed"}] : e["AMD_RUST_ENV"] # "malformed"}

\* main and setup_tracing: the first setting whose read or parse fails, in
\* the order of the reads, or "none".  The token is read as a string;
\* ROOT_URL is not read.
config_error(e) ==
    IF e["AMD_RUST_ENV"] = "missing" THEN "AMD_RUST_ENV"
    ELSE IF e["ENABLE_DEBUG_LIBRARIES"] # "ok" THEN "ENABLE_DEBUG_LIBRARIES"
    ELSE IF e["DISCORD_TOKEN"] = "missing" THEN "DISCORD_TOKEN"
    ELSE IF e["OWNER_ID"] # "ok" THEN "OWNER_ID"
    ELSE "none"

\* client.start(): the platform rejects a malformed token.
client_start_error(e) == IF e["DISCORD_TOKEN"] = "malformed" THEN "DISCORD_TOKEN" ELSE "none"

\* The operations of the remote data API; each reads ROOT_URL when called.
RootOps == {"fetch_members", "streak_mutation", "fetch_streaks", "fetch_attendance"}

\* The operations that fail because of the environment when a job runs.
env_faults(e, task) == IF e["ROOT_URL"] # "ok" THEN OpsOf(task) \cap RootOps ELSE {}

LoopIds == 1..Len(loops)

wake_enabled_serial(l) ==
    /\ loops[l].pc = "WAITING"
    /\ loops[l].sleep_left = 0
    /\ \A k \in LoopIds : loops[k].pc # "RUNNING"

\* A sleeping loop resumes when its own delay has elapsed.
wake_enabled(l) ==
    /\ loops[l].pc = "WAITING"
    /\ loops[l].sleep_left = 0

loop_after_run_escalating(loop, outcome) ==
    IF outcome = "ok"
    THEN [loop EXCEPT !.pc = "IDLE", !.last = outcome, !.prev_slow = (now # loop.started_at)]
    ELSE [loop EXCEPT !.pc = "DEAD", !.last = outcome, !.prev_slow = (now # loop.started_at)]

\* The loop after an execution: a result (ok or err) is logged and the
\* cycle continues; a panic unwinds the loop's own context.
loop_after_run(loop, outcome) ==
    IF outcome = "panic"
    THEN [loop EXCEPT !.pc = "DEAD", !.last = outcome, !.prev_slow = (now # loop.started_at)]
    ELSE [loop EXCEPT !.pc = "IDLE", !.last = outcome, !.prev_slow = (now # loop.started_at)]

process_after_run_aborting(outcome) == outcome # "panic"

\* The process after an execution: a panic stays inside the loop's context.
process_after_run(outcome) == TRUE

(***************************************************************************)
(* One run of the status-update job of tasks/status_update.rs, step by     *)
(* step, with the data it works on.                                        *)
(***************************************************************************)
\* graphql/models.rs, Member: the members the remote data API may hold (one
\* without a streak, one with one streak entry, one with two, one with a
\* negative group id).
MemberPool ==
    <<[member_id |-> 1, discord_id |-> "d1", group_id |-> 1, streak |-> <<>>],
      [member_id |-> 2, discord_id |-> "d2", group_id |-> 1,
       streak |-> <<[current_streak |-> 3, max_streak |-> 5]>>],
      [member_id |-> 3, discord_id |-> "d3", group_id |-> 2,
       streak |-> <<[current_streak |-> 0, max_streak |-> 4],
                    [current_streak |-> 1, max_streak |-> 1]>>],
      [member_id |-> 4, discord_id |-> "d4", group_id |-> -1,
       streak |-> <<[current_streak |-> 2, max_streak |-> 2]>>]>>

\* What fetch_members returns on success: members of the pool, in its order.
Rosters ==
    {SelectSeq(MemberPool, LAMBDA m : m.member_id \in S) :
        S \in {T \in SUBSET (1..Len(MemberPool)) : Cardinality(T) <= MaxMembers}}

\* The messages found in the group channels: their author, and whether
\* is_valid_status_update accepts them.
Messages ==
    [author : {"d1", "d2", "d3", "dx"}, valid : {TRUE}] \cup {[author |-> "d1", valid |-> FALSE]}

RECURSIVE SeqsUpTo(_, _)
SeqsUpTo(S, n) ==
    IF n = 0 THEN {<<>>}
    ELSE SeqsUpTo(S, n - 1) \cup {Append(q, x) : q \in SeqsUpTo(S, n - 1), x \in S}

\* get_channel_ids: the four group channels.
get_channel_ids == <<"GROUP_ONE", "GROUP_TWO", "GROUP_THREE", "GROUP_FOUR">>

\* The channel a posted message is in: the i-th message is in the i-th
\* channel (and on around).
ChannelOf(i) == get_channel_ids[((i - 1) % Len(get_channel_ids)) + 1]

\* get_updates, one channel: the valid updates among the channel's
\* messages, in their order.
valid_updates(posted, channel) ==
    LET idx == {i \in DOMAIN posted : ChannelOf(i) = channel /\ posted[i].valid}
        RECURSIVE take(_)
        take(i) ==
            IF i > Len(posted) THEN <<>>
            ELSE IF i \in idx THEN <<posted[i]>> \o take(i + 1)
            ELSE take(i + 1)
    IN take(1)

\* `as u64` of a 32-bit integer: the 64-bit unsigned value, as its four
\* 16-bit digits from the most significant; a negative integer is sign
\* extended.
as_u64(i) ==
    <<IF i < 0 THEN 65535 ELSE 0, IF i < 0 THEN 65535 ELSE 0,
      (i \div 65536) % 65536, i % 65536>>

\* categorize_members: the members whose discord id is the author of an
\* update, in order, and the others grouped under their group id.
categorize_members(members, updates) ==
    LET sent_updates == {updates[i].author : i \in DOMAIN updates}
        is_nice(m) == m.discord_id \in sent_updates
        groups == {as_u64(m.group_id) :
                      m \in {members[i] : i \in {j \in DOMAIN members : ~is_nice(members[j])}}}
    IN [nice_list |-> SelectSeq(members, is_nice),
        naughty_list |->
            [group \in groups |->
                SelectSeq(members, LAMBDA m : ~is_nice(m) /\ as_u64(m.group_id) = group)]]

\* What the remote data API answers to a streak mutation: whether ROOT_URL
\* is set, the request is sent, the status is a success, the body is JSON,
\* the data of the mutation is there, and the two streak fields ("none"
\* when absent or not an integer).  Streak values are 32-bit integers.
StreakResults ==
    {[current_streak |-> 0, max_streak |-> 5],
     [current_streak |-> -1, max_streak |-> 5],
     [current_streak |-> 6, max_streak |-> 6]}

GoodResponse(v) ==
    [root_url |-> TRUE, sent |-> TRUE, success |-> TRUE, json |-> TRUE, data |-> TRUE,
     has_current |-> TRUE, has_max |-> TRUE,
     current_streak |-> v.current_streak, max_streak |-> v.max_streak]

\* The good responses, and the responses that fail in one way.
Responses ==
    {GoodResponse(v) : v \in StreakResults}
    \cup {[GoodResponse(v) EXCEPT ![f] = FALSE] :
            v \in {[current_streak |-> 6, max_streak |-> 6]},
            f \in {"root_url", "sent", "success", "json", "data", "has_current", "has_max"}}

reset_streak_keeping_empty(member, r) ==
    IF ~r.root_url \/ ~r.sent \/ ~r.success \/ ~r.json \/ ~r.data
       \/ ~r.has_current \/ ~r.has_max
    THEN [result |-> "err", member |-> member]
    ELSE [result |-> "ok",
          member |-> [member EXCEPT !.streak =
                        [k \in DOMAIN member.streak |->
                            [current_streak |-> r.current_streak,
                             max_streak |-> r.max_streak]]]]

\* graphql/queries.rs, reset_streak.
reset_streak(member, r) ==
    IF ~r.root_url THEN [result |-> "err", member |-> member]
    ELSE IF ~r.sent THEN [result |-> "err", member |-> member]
    ELSE IF ~r.success THEN [result |-> "err", member |-> member]
    ELSE IF ~r.json THEN [result |-> "err", member |-> member]
    ELSE IF ~r.data THEN [result |-> "err", member |-> member]
    ELSE IF ~r.has_current THEN [result |-> "err", member |-> member]
    ELSE IF ~r.has_max THEN [result |-> "err", member |-> member]
    ELSE [result |-> "ok",
          member |->
            IF member.streak = <<>>
            THEN [member EXCEPT !.streak =
                    <<[current_streak |-> r.current_streak, max_streak |-> r.max_streak]>>]
            ELSE [member EXCEPT !.streak =
                    [k \in DOMAIN member.streak |->
                        [current_streak |-> r.current_streak,
                         max_streak |-> r.max_streak]]]]

\* graphql/queries.rs, increment_streak.
increment_streak(member, r) ==
    IF ~r.root_url THEN [result |-> "err", member |-> member]
    ELSE IF ~r.sent THEN [result |-> "err", member |-> member]
    ELSE IF ~r.success THEN [result |-> "err", member |-> member]
    ELSE IF ~r.json THEN [result |-> "err", member |-> member]
    ELSE IF ~r.data THEN [result |-> "err", member |-> member]
    ELSE IF ~r.has_current THEN [result |-> "err", member |-> member]
    ELSE IF ~r.has_max THEN [result |-> "err", member |-> member]
    ELSE [result |-> "ok",
          member |->
            IF member.streak = <<>>
            THEN [member EXCEPT !.streak =
                    <<[current_streak |-> r.current_streak, max_streak |-> r.max_streak]>>]
            ELSE [member EXCEPT !.streak =
                    [k \in DOMAIN member.streak |->
                        [current_streak |-> r.current_streak,
                         max_streak |-> r.max_streak]]]]

\* format_defaulters reads the first streak entry of every defaulter; a
\* defaulter without one makes it panic.
format_defaulters(naughty_list) ==
    IF \E g \in DOMAIN naughty_list : \E j \in DOMAIN naughty_list[g] :
            naughty_list[g][j].streak = <<>>
    THEN "panic"
    ELSE "ok"

\* update_streaks_for_members: the mutations it issues, in order: an
\* increment for every member of the nice list, then a reset for every
\* defaulter, group after group in the order the map yields them.
RECURSIVE resets_of(_, _)
resets_of(naughty_list, group_order) ==
    IF group_order = <<>> THEN <<>>
    ELSE [j \in DOMAIN naughty_list[Head(group_order)] |->
            [op |-> "reset", group |-> Head(group_order), index |-> j]]
         \o resets_of(naughty_list, Tail(group_order))

update_streaks_resets_first(nice_list, naughty_list, group_order) ==
    resets_of(naughty_list, group_order)
    \o [i \in DOMAIN nice_list |-> [op |-> "increment", group |-> as_u64(0), index |-> i]]

update_streaks_for_members(nice_list, naughty_list, group_order) ==
    [i \in DOMAIN nice_list |-> [op |-> "increment", group |-> as_u64(0), index |-> i]]
    \o resets_of(naughty_list, group_order)

\* The orders in which a map may yield the groups.
GroupOrders(naughty_list) ==
    {q \in SeqsUpTo(DOMAIN naughty_list, Cardinality(DOMAIN naughty_list)) :
        Len(q) = Cardinality(DOMAIN naughty_list)
        /\ {q[i] : i \in DOMAIN q} = DOMAIN naughty_list}

SuOff == [pc |-> "off"]

\* The run before its first step: posted and roster are what the platform
\* and the remote data API hold.
SuStart(posted, roster) ==
    [pc |-> "get_updates", posted |-> posted, roster |-> roster, chan |-> 1,
     updates |-> <<>>, members |-> <<>>, nice_list |-> <<>>, naughty_list |-> <<>>,
     work |-> <<>>, log |-> <<>>, result |-> "none"]

\* The run ended with a failure at the operation logged last.
SuFailed(log) == [su EXCEPT !.pc = "done", !.result = "err", !.log = log]

(***************************************************************************)
(* One run of the lab-attendance job of tasks/lab_attendance.rs, with the  *)
(* attendance list it works on.                                            *)
(***************************************************************************)
\* graphql/models.rs, AttendanceRecord.time_in: no time, or the text
\* "h:m:s" with or without a fraction of a second.
NoTime == [some |-> FALSE, h |-> 0, m |-> 0, s |-> 0, fraction |-> FALSE]

TimeIns ==
    {NoTime,
     [some |-> TRUE, h |-> 17, m |-> 0, s |-> 0, fraction |-> FALSE],
     [some |-> TRUE, h |-> 18, m |-> 30, s |-> 0, fraction |-> TRUE],
     [some |-> TRUE, h |-> 24, m |-> 0, s |-> 0, fraction |-> FALSE]}

\* The attendance lists fetch_attendance returns on success; the records
\* are named by their position.
AttendanceLists ==
    {[i \in DOMAIN kinds |->
        [name |-> i, year |-> 1, is_present |-> kinds[i].is_present,
         time_in |-> kinds[i].time_in]] :
        kinds \in SeqsUpTo([is_present : BOOLEAN, time_in : TimeIns], MaxRecords)}

\* The seconds the organizational clock is ahead of the host's local clock
\* (a host in the organizational timezone, a host on UTC).
HostOffsets == {0, 5 * HourSecs + 30 * 60}

\* parse_time: the text before the first '.' parsed as %H:%M:%S, on today's
\* date of the host's local calendar; the result is the time of day it
\* reads on the organizational clock, "err" for a text that does not parse
\* and "panic" when the local calendar has no single such instant.
parse_time(time_str, host_offset, faults) ==
    IF ~(time_str.h \in 0..23 /\ time_str.m \in 0..59 /\ time_str.s \in 0..60)
    THEN [result |-> "err", time |-> 0]
    ELSE IF "local_time" \in faults THEN [result |-> "panic", time |-> 0]
    ELSE [result |-> "ok",
          time |-> time_str.h * HourSecs + time_str.m * 60
                   + (IF time_str.s = 60 THEN 59 ELSE time_str.s) + host_offset]

\* get_five_forty_five_pm_timestamp: by its name, 17:45 of today,
\* organizational time.
get_five_forty_five_pm_timestamp == 17 * HourSecs + 45 * 60

is_absent_or_unparsed(record, host_offset) ==
    \/ ~record.is_present
    \/ ~record.time_in.some
    \/ parse_time(record.time_in, host_offset, {}).result = "err"

\* check_lab_attendance, the first branch of the loop.
is_absent(record, host_offset) == ~record.is_present \/ ~record.time_in.some

\* check_lab_attendance, the second branch of the loop.
is_late(record, host_offset, faults) ==
    /\ ~is_absent(record, host_offset)
    /\ parse_time(record.time_in, host_offset, faults).result = "ok"
    /\ parse_time(record.time_in, host_offset, faults).time > get_five_forty_five_pm_timestamp

\* check_lab_attendance between the fetch of the attendance and the first
\* call of the send: the two lists of the loop and the message chosen, or
\* the panic of parse_time.
classify_attendance(attendance, host_offset, faults) ==
    LET absent_list == SelectSeq(attendance, LAMBDA r : is_absent(r, host_offset))
        late_list == SelectSeq(attendance, LAMBDA r : is_late(r, host_offset, faults))
        panics == \E i \in DOMAIN attendance :
                     /\ ~is_absent(attendance[i], host_offset)
                     /\ parse_time(attendance[i].time_in, host_offset, faults).result = "panic"
    IN IF panics
       THEN [result |-> "panic", absent_list |-> <<>>, late_list |-> <<>>, message |-> "none"]
       ELSE [result |-> "ok", absent_list |-> absent_list, late_list |-> late_list,
             message |-> IF Len(absent_list) = Len(attendance) THEN "lab_closed"
                         ELSE "attendance_report"]

LaOff == [pc |-> "off"]

\* The run before its first step: attendance is what the remote data API
\* holds, faults whether the host's calendar fails parse_time.
LaStart(attendance, host_offset, faults) ==
    [pc |-> "fetch_attendance", attendance |-> attendance, host_offset |-> host_offset,
     faults |-> faults, fetched |-> <<>>, absent_list |-> <<>>, late_list |-> <<>>,
     message |-> "none", sent |-> <<>>, result |-> "none"]

\* The run ended with the result given.
LaEnded(result) == [la EXCEPT !.pc = "done", !.result = result]

(***************************************************************************)
(* The leaderboard of tasks/status_update.rs: get_leaderboard_stats and    *)
(* find_highest_streak, with the streak list they work on.                 *)
(***************************************************************************)
\* A member id no member has.
UnknownMemberId == 9

\* graphql/models.rs, StreakWithMemberId: the entries fetch_streaks may
\* return, of two members of the pool and of an unknown member, with
\* negative, zero and positive streaks.
StreakEntries ==
    {[member_id |-> id, current_streak |-> v[1], max_streak |-> v[2]] :
        id \in {1, 2, UnknownMemberId},
        v \in {<<-1, -1>>, <<0, 0>>, <<0, 2>>, <<2, 2>>}}

StreakLists == SeqsUpTo(StreakEntries, MaxStreaks)

\* The member lists get_leaderboard_stats is given: none, two members, and
\* two members followed by a second record of the first one's id.
LeaderboardMembers ==
    {<<>>,
     <<MemberPool[1], MemberPool[2]>>,
     <<MemberPool[1], MemberPool[2], [MemberPool[1] EXCEPT !.discord_id = "d1b"]>>}

\* get_leaderboard_stats, member_map: the members by their id; of two
\* members with one id the map keeps the later.
member_map(members) ==
    [id \in {members[i].member_id : i \in DOMAIN members} |->
        members[CHOOSE i \in DOMAIN members :
                    /\ members[i].member_id = id
                    /\ \A j \in DOMAIN members : members[j].member_id = id => j <= i]]

find_highest_streak_keeping_lower(streaks, map, is_all_time) ==
    LET RECURSIVE loop(_, _, _)
        loop(i, highest, highest_members) ==
            IF i > Len(streaks) THEN [highest |-> highest, members |-> highest_members]
            ELSE IF streaks[i].member_id \notin DOMAIN map
            THEN loop(i + 1, highest, highest_members)
            ELSE LET member == map[streaks[i].member_id]
                     streak_value == IF is_all_time THEN streaks[i].max_streak
                                     ELSE streaks[i].current_streak
                 IN IF streak_value >= highest
                    THEN loop(i + 1, streak_value, Append(highest_members, member))
                    ELSE loop(i + 1, highest, highest_members)
    IN loop(1, 0, <<>>)

\* find_highest_streak: the loop over the streaks, from highest = 0 and no
\* member.
find_highest_streak(streaks, map, is_all_time) ==
    LET RECURSIVE loop(_, _, _)
        loop(i, highest, highest_members) ==
            IF i > Len(streaks) THEN [highest |-> highest, members |-> highest_members]
            ELSE IF streaks[i].member_id \notin DOMAIN map
            THEN loop(i + 1, highest, highest_members)
            ELSE LET member == map[streaks[i].member_id]
                     streak_value == IF is_all_time THEN streaks[i].max_streak
                                     ELSE streaks[i].current_streak
                 IN IF streak_value > highest
                    THEN loop(i + 1, streak_value, <<member>>)
                    ELSE IF streak_value = highest
                    THEN loop(i + 1, highest, Append(highest_members, member))
                    ELSE loop(i + 1, highest, highest_members)
    IN loop(1, 0, <<>>)

HsOff == [pc |-> "off"]

\* get_leaderboard_stats before its first step: streaks is what the remote
\* data API holds.
HsStart(members, streaks) ==
    [pc |-> "fetch_streaks", members |-> members, streaks |-> streaks,
     fetched |-> <<>>, all_time |-> [highest |-> 0, members |-> <<>>],
     current |-> [highest |-> 0, members |-> <<>>], result |-> "none"]

(***************************************************************************)
(* The simulated-clock scenario (design specification 7): the jobs are     *)
(* registered together and the clock is advanced by 24 hours from the      *)
(* scheduler's start.  While the scenario is off the clock runs on without *)
(* end and nothing is logged.                                              *)
(***************************************************************************)
SimOff == [on |-> FALSE, elapsed |-> 0, log |-> <<>>]

SimOn == [on |-> TRUE, elapsed |-> 0, log |-> <<>>]

\* The scenario's log after loop l starts ("start") or ends (its outcome).
sim_logged(l, what) ==
    IF sim.on THEN [sim EXCEPT !.log = Append(@, <<l, what>>)] ELSE sim

\* The seconds the scenario's clock may still be advanced.
sim_left == IF sim.on THEN {DayLen - sim.elapsed} ELSE {}

(***************************************************************************)
(* The platform event handler (main.rs, reaction_roles.rs): reactions on   *)
(* the roles message give and take roles.                                  *)
(***************************************************************************)
\* reaction_roles.rs, populate_data_with_reaction_roles: the role of each
\* emoji (one of the entries of the table stands for all).
reaction_roles == [emoji \in {"mobile"} |-> "MOBILE_ROLE"]

is_relevant_reaction(message_id, emoji) ==
    message_id = "ROLES_MESSAGE" /\ emoji \in DOMAIN reaction_roles

\* A handler that has returned.
Returned == [stage |-> "returned", emoji |-> "none", is_add |-> FALSE]

\* handle_reaction up to its first platform call: it returns for a reaction
\* that is not relevant or lacks the guild or the user, and else awaits the
\* member.
handle_reaction(reaction, is_add) ==
    IF ~is_relevant_reaction(reaction.message_id, reaction.emoji) THEN Returned
    ELSE IF ~reaction.guild_id THEN Returned
    ELSE IF ~reaction.user_id THEN Returned
    ELSE [stage |-> "member", emoji |-> reaction.emoji, is_add |-> is_add]

\* event_handler: reactions are handled, every other event is ignored.
event_handler(event) ==
    CASE event.kind = "ReactionAdd" -> handle_reaction(event.reaction, TRUE)
      [] event.kind = "ReactionRemove" -> handle_reaction(event.reaction, FALSE)
      [] OTHER -> Returned

\* handle_reaction when the member fetch has returned: it returns on an
\* error or without a role for the emoji, and else awaits the role change.
after_member(handler, ok) ==
    IF ~ok THEN Returned
    ELSE IF handler.emoji \notin DOMAIN reaction_roles THEN Returned
    ELSE [handler EXCEPT !.stage = "role"]

\* handle_reaction when the role change has returned: the member's roles
\* (an error is logged and leaves them as they were).
after_role(roles, handler, ok) ==
    IF ~ok THEN roles
    ELSE IF handler.is_add THEN roles \cup {reaction_roles[handler.emoji]}
    ELSE roles \ {reaction_roles[handler.emoji]}

\* A reaction with a role on the roles message, and the reactions that
\* differ from it in one field.
RoleReaction ==
    [message_id |-> "ROLES_MESSAGE", emoji |-> "mobile", guild_id |-> TRUE, user_id |-> TRUE]

Reactions ==
    {RoleReaction,
     [RoleReaction EXCEPT !.message_id = "other"],
     [RoleReaction EXCEPT !.emoji = "tada"],
     [RoleReaction EXCEPT !.guild_id = FALSE],
     [RoleReaction EXCEPT !.user_id = FALSE]}

Events ==
    [kind : {"ReactionAdd", "ReactionRemove"}, reaction : Reactions]
        \cup {[kind |-> "Message", reaction |-> RoleReaction]}

\* The member holds no role and no handler is in flight.
NoneServed == [roles |-> {}, handlers |-> EmptyBag]

(***************************************************************************)
(* Actions.                                                                *)
(***************************************************************************)
QueryVars == <<q_hour, q_minute, q_task, q_result, q_calls>>

\* main: the settings are read; a failed read or parse ends main.
ReadConfig ==
    /\ main_pc = "start"
    /\ process_up
    /\ IF config_error(env) = "none"
       THEN main_pc' = "starting_client" /\ UNCHANGED process_up
       ELSE main_pc' = "aborted" /\ process_up' = FALSE
    /\ UNCHANGED <<now, loops, QueryVars, sim, env, served, su, la, hs, setup_at>>

\* main: the client is built and started; a failure ends main.
StartClient ==
    /\ main_pc = "starting_client"
    /\ process_up
    /\ IF client_start_error(env) = "none"
       THEN main_pc' = "connecting" /\ UNCHANGED process_up
       ELSE main_pc' = "aborted" /\ process_up' = FALSE
    /\ UNCHANGED <<now, loops, QueryVars, sim, env, served, su, la, hs, setup_at>>

\* main: the client is connected and the framework runs setup; the next
\* call of setup returns, with an error when ok is false.
SetupCall(ok) ==
    /\ main_pc = "connecting"
    /\ process_up
    /\ setup_at < Len(setup_calls)
    /\ LET call == setup_calls[setup_at + 1]
       IN IF ok
          THEN /\ setup_at' = setup_at + 1
               /\ loops' = apply_call(call, loops)
               /\ UNCHANGED main_pc
          ELSE /\ call \in SetupFailures
               /\ main_pc' = "setup_failed"
               /\ UNCHANGED <<setup_at, loops>>
    /\ UNCHANGED <<now, process_up, QueryVars, sim, env, served, su, la, hs>>

\* setup returns Ok(data) and the framework keeps the data.
SetupReturn ==
    /\ main_pc = "connecting"
    /\ process_up
    /\ setup_returns(setup_at, loops)
    /\ main_pc' = "serving"
    /\ UNCHANGED <<now, setup_at, process_up, loops, QueryVars, sim, env, served, su, la, hs>>

\* The framework hands an event to event_handler, in a task of its own and
\* with the data setup returned; the handler runs up to its first platform
\* call.
HandleEvent(event) ==
    /\ main_pc = "serving"
    /\ process_up
    /\ BagCardinality(served.handlers) < MaxHandlers
    /\ served' = IF event_handler(event) = Returned THEN served
                 ELSE [served EXCEPT !.handlers = @ (+) SetToBag({event_handler(event)})]
    /\ UNCHANGED <<now, main_pc, setup_at, process_up, loops, QueryVars, sim, env, su, la, hs>>

\* The member fetch of a handler in flight returns.
HandlerMember(handler, ok) ==
    /\ process_up
    /\ BagIn(handler, served.handlers)
    /\ handler.stage = "member"
    /\ served' = [served EXCEPT !.handlers =
                    IF after_member(handler, ok) = Returned
                    THEN @ (-) SetToBag({handler})
                    ELSE (@ (-) SetToBag({handler})) (+) SetToBag({after_member(handler, ok)})]
    /\ UNCHANGED <<now, main_pc, setup_at, process_up, loops, QueryVars, sim, env, su, la, hs>>

\* The role change of a handler in flight returns, and the handler with it.
HandlerRole(handler, ok) ==
    /\ process_up
    /\ BagIn(handler, served.handlers)
    /\ handler.stage = "role"
    /\ served' = [roles |-> after_role(served.roles, handler, ok),
                  handlers |-> served.handlers (-) SetToBag({handler})]
    /\ UNCHANGED <<now, main_pc, setup_at, process_up, loops, QueryVars, sim, env, su, la, hs>>

\* (a) compute the delay until the next run.
ComputeDelay(l) ==
    /\ process_up
    /\ loops[l].pc = "IDLE"
    /\ loops' = [loops EXCEPT ![l].pc = "WAITING", ![l].sleep_left = run_in(loops[l].task)]
    /\ UNCHANGED <<now, main_pc, process_up, QueryVars, sim, env, served, su, la, hs, setup_at>>

\* (b) the delay has elapsed; (c) the execution starts.
Wake(l) ==
    /\ process_up
    /\ wake_enabled(l)
    /\ loops' = [loops EXCEPT ![l].pc = "RUNNING", ![l].started_at = now]
    /\ sim' = sim_logged(l, "start")
    /\ UNCHANGED <<now, main_pc, process_up, QueryVars, env, served, su, la, hs, setup_at>>

\* (c) the execution ends; (d) its outcome is logged.
Complete(l, faults) ==
    /\ process_up
    /\ loops[l].pc = "RUNNING"
    /\ LET outcome == run(loops[l].task, faults \cup env_faults(env, loops[l].task))
       IN /\ loops' = [loops EXCEPT ![l] = loop_after_run(loops[l], outcome)]
          /\ process_up' = process_after_run(outcome)
          /\ sim' = sim_logged(l, outcome)
    /\ UNCHANGED <<now, main_pc, QueryVars, env, served, su, la, hs, setup_at>>

\* The clock advances, by at most TickStep and never past the end of a
\* sleep (nor past the end of the scenario); it does not advance while a
\* loop has an immediate step to take.
Tick ==
    /\ process_up
    /\ main_pc = "serving"
    /\ \A l \in LoopIds : loops[l].pc # "IDLE" /\ ~wake_enabled(l)
    /\ sim_left # {0}
    /\ LET sleeps == {loops[l].sleep_left : l \in {k \in LoopIds : loops[k].pc = "WAITING"}}
           d == Min((sleeps \ {0}) \cup {TickStep} \cup sim_left)
       IN /\ now' = (now + d) % DayLen
          /\ sim' = IF sim.on THEN [sim EXCEPT !.elapsed = @ + d] ELSE sim
          /\ loops' = [l \in LoopIds |->
                         IF loops[l].pc = "WAITING" /\ loops[l].sleep_left > 0
                         THEN [loops[l] EXCEPT !.sleep_left = @ - d]
                         ELSE loops[l]]
    /\ UNCHANGED <<main_pc, process_up, QueryVars, env, served, su, la, hs, setup_at>>

StartTimes == {4 * HourSecs, 5 * HourSecs, 6 * HourSecs, 18 * HourSecs}

Init ==
    /\ now \in StartTimes
    /\ main_pc = "connecting"
    /\ setup_at = 0
    /\ process_up = TRUE
    /\ loops = <<>>
    /\ q_hour = 0
    /\ q_minute = 0
    /\ q_task = "none"
    /\ q_result = -1
    /\ q_calls = 0
    /\ sim = SimOff
    /\ env = EnvOk
    /\ served = NoneServed
    /\ su = SuOff
    /\ la = LaOff
    /\ hs = HsOff

\* One step of setup: its next call returns, or setup itself.
SetupStep == (\E ok \in BOOLEAN : SetupCall(ok)) \/ SetupReturn

\* One step of a loop: whichever of (a), (b)/(c), (c)/(d) it is at.
LoopStep(l) ==
    \/ ComputeDelay(l)
    \/ Wake(l)
    \/ \E faults \in SUBSET OpsOf(loops[l].task) : Complete(l, faults)

Next ==
    \/ \E ok \in BOOLEAN : SetupCall(ok)
    \/ SetupReturn
    \/ \E l \in LoopIds : ComputeDelay(l)
    \/ \E l \in LoopIds : Wake(l)
    \/ \E l \in LoopIds : \E faults \in SUBSET OpsOf(loops[l].task) : Complete(l, faults)
    \/ Tick

Spec == Init /\ [][Next]_vars

\* Fair scheduling: setup runs, the clock advances, every loop takes its
\* steps and every execution completes.
Fairness ==
    /\ WF_vars(SetupStep)
    /\ WF_vars(Tick)
    /\ \A l \in 1..Len(registered_tasks) : WF_vars(l \in LoopIds /\ LoopStep(l))

FairSpec == Spec /\ Fairness

\* The handlers that can be in flight.
HandlersInFlight ==
    [stage : {"member", "role"}, emoji : DOMAIN reaction_roles, is_add : BOOLEAN]

\* The faults of a run beside the event handler: none, or the fetch of the
\* members fails (a failure of one job, a panic of the other).
ServingFaults(task) == {{}} \cup {{op} : op \in OpsOf(task) \cap {"fetch_members"}}

\* The scheduler beside the event handler.
ServingNext ==
    \/ \E ok \in BOOLEAN : SetupCall(ok)
    \/ SetupReturn
    \/ \E l \in LoopIds : ComputeDelay(l)
    \/ \E l \in LoopIds : Wake(l)
    \/ \E l \in LoopIds : \E faults \in ServingFaults(loops[l].task) : Complete(l, faults)
    \/ Tick
    \/ \E event \in Events : HandleEvent(event)
    \/ \E handler \in HandlersInFlight : \E ok \in BOOLEAN : HandlerMember(handler, ok)
    \/ \E handler \in HandlersInFlight : \E ok \in BOOLEAN : HandlerRole(handler, ok)

\* The process is started at 04:00.
ServingInit == Init /\ now = 4 * HourSecs

SpecServing ==
    /\ ServingInit
    /\ [][ServingNext]_vars
    /\ WF_vars(SetupStep)

\* The whole of main, from its first line, in any environment.
MainInit ==
    /\ now \in StartTimes
    /\ main_pc = "start"
    /\ setup_at = 0
    /\ process_up = TRUE
    /\ loops = <<>>
    /\ q_hour = 0
    /\ q_minute = 0
    /\ q_task = "none"
    /\ q_result = -1
    /\ q_calls = 0
    /\ sim = SimOff
    /\ env \in Environments
    /\ served = NoneServed
    /\ su = SuOff
    /\ la = LaOff
    /\ hs = HsOff

MainNext ==
    \/ ReadConfig
    \/ StartClient
    \/ Next

SpecMain == MainInit /\ [][MainNext]_vars

\* The 24-hour scenario: as Init, with the simulated clock on.
DayInit ==
    /\ now \in StartTimes
    /\ main_pc = "connecting"
    /\ setup_at = 0
    /\ process_up = TRUE
    /\ loops = <<>>
    /\ q_hour = 0
    /\ q_minute = 0
    /\ q_task = "none"
    /\ q_result = -1
    /\ q_calls = 0
    /\ sim = SimOn
    /\ env = EnvOk
    /\ served = NoneServed
    /\ su = SuOff
    /\ la = LaOff
    /\ hs = HsOff

SpecDay == DayInit /\ [][Next]_vars /\ Fairness

(***************************************************************************)
(* The steps of one run of status_update_check.  Every external operation  *)
(* is logged with its argument (the channel's position, the member's id)   *)
(* and whether it succeeded.                                               *)
(***************************************************************************)
Logged(op, arg, ok) == Append(su.log, [op |-> op, arg |-> arg, ok |-> ok])

\* get_updates: the messages of the next channel are fetched and the valid
\* updates among them kept.
SuGetUpdates(ok) ==
    /\ su.pc = "get_updates"
    /\ su' = IF ~ok THEN SuFailed(Logged("channel_messages", su.chan, FALSE))
             ELSE [su EXCEPT
                     !.log = Logged("channel_messages", su.chan, TRUE),
                     !.updates = @ \o valid_updates(su.posted, get_channel_ids[su.chan]),
                     !.chan = @ + 1,
                     !.pc = IF su.chan = Len(get_channel_ids) THEN "fetch_members" ELSE @]
    /\ UNCHANGED <<now, main_pc, process_up, loops, QueryVars, sim, env, served, la, hs, setup_at>>

\* fetch_members, then categorize_members; the map of the defaulters yields
\* its groups in some order.
SuFetchMembers(ok, group_order) ==
    /\ su.pc = "fetch_members"
    /\ LET lists == categorize_members(su.roster, su.updates)
       IN IF ~ok
          THEN /\ group_order = <<>>
               /\ su' = SuFailed(Logged("fetch_members", 0, FALSE))
          ELSE /\ group_order \in GroupOrders(lists.naughty_list)
               /\ su' = [su EXCEPT
                           !.log = Logged("fetch_members", 0, TRUE),
                           !.members = su.roster,
                           !.nice_list = lists.nice_list,
                           !.naughty_list = lists.naughty_list,
                           !.work = update_streaks_for_members(lists.nice_list,
                                        lists.naughty_list, group_order),
                           !.pc = "update_streaks"]
    /\ UNCHANGED <<now, main_pc, process_up, loops, QueryVars, sim, env, served, la, hs, setup_at>>

\* update_streaks_for_members: the next mutation is issued; r is the answer
\* of the remote data API.
SuUpdateStreak(r) ==
    /\ su.pc = "update_streaks"
    /\ su.work # <<>>
    /\ LET item == Head(su.work)
           member == IF item.op = "increment" THEN su.nice_list[item.index]
                     ELSE su.naughty_list[item.group][item.index]
           out == IF item.op = "increment" THEN increment_streak(member, r)
                  ELSE reset_streak(member, r)
           nice == IF item.op = "increment"
                   THEN [su.nice_list EXCEPT ![item.index] = out.member]
                   ELSE su.nice_list
           naughty == IF item.op = "reset"
                      THEN [su.naughty_list EXCEPT ![item.group][item.index] = out.member]
                      ELSE su.naughty_list
       IN su' = IF out.result = "err"
                THEN [SuFailed(Logged(item.op, member.member_id, FALSE)) EXCEPT
                        !.nice_list = nice, !.naughty_list = naughty]
                ELSE [su EXCEPT
                        !.log = Logged(item.op, member.member_id, TRUE),
                        !.nice_list = nice,
                        !.naughty_list = naughty,
                        !.work = Tail(@)]
    /\ UNCHANGED <<now, main_pc, process_up, loops, QueryVars, sim, env, served, la, hs, setup_at>>

\* generate_embed: the streaks are fetched for the leaderboard and the
\* defaulters are formatted.
SuGenerateEmbed(ok) ==
    /\ su.pc = "update_streaks"
    /\ su.work = <<>>
    /\ su' = IF ~ok THEN SuFailed(Logged("fetch_streaks", 0, FALSE))
             ELSE IF format_defaulters(su.naughty_list) = "panic"
             THEN [su EXCEPT !.log = Logged("fetch_streaks", 0, TRUE),
                             !.pc = "done", !.result = "panic"]
             ELSE [su EXCEPT !.log = Logged("fetch_streaks", 0, TRUE), !.pc = "send_message"]
    /\ UNCHANGED <<now, main_pc, process_up, loops, QueryVars, sim, env, served, la, hs, setup_at>>

\* The report is sent to the status-update channel.
SuSendMessage(ok) ==
    /\ su.pc = "send_message"
    /\ su' = IF ~ok THEN SuFailed(Logged("send_message", 0, FALSE))
             ELSE [su EXCEPT !.log = Logged("send_message", 0, TRUE),
                             !.pc = "done", !.result = "ok"]
    /\ UNCHANGED <<now, main_pc, process_up, loops, QueryVars, sim, env, served, la, hs, setup_at>>

GroupIds == {as_u64(MemberPool[i].group_id) : i \in DOMAIN MemberPool}

\* A run of status_update_check on any messages and any members.
StatusInit ==
    /\ now = 5 * HourSecs
    /\ main_pc = "serving"
    /\ setup_at = Len(setup_calls)
    /\ process_up = TRUE
    /\ loops = <<>>
    /\ q_hour = 0
    /\ q_minute = 0
    /\ q_task = "none"
    /\ q_result = -1
    /\ q_calls = 0
    /\ sim = SimOff
    /\ env = EnvOk
    /\ served = NoneServed
    /\ la = LaOff
    /\ hs = HsOff
    /\ \E posted \in SeqsUpTo(Messages, MaxUpdates) : \E roster \in Rosters :
          su = SuStart(posted, roster)

StatusNext ==
    \/ \E ok \in BOOLEAN : SuGetUpdates(ok)
    \/ \E ok \in BOOLEAN : \E group_order \in SeqsUpTo(GroupIds, Cardinality(GroupIds)) : SuFetchMembers(ok, group_order)
    \/ \E r \in Responses : SuUpdateStreak(r)
    \/ \E ok \in BOOLEAN : SuGenerateEmbed(ok)
    \/ \E ok \in BOOLEAN : SuSendMessage(ok)

SpecStatus == StatusInit /\ [][StatusNext]_vars

\* check_lab_attendance: the attendance is fetched, and the records are
\* classified up to the first call of the send.
LaFetchAttendance(ok) ==
    /\ la.pc = "fetch_attendance"
    /\ LET lists == classify_attendance(la.attendance, la.host_offset, la.faults)
       IN la' = IF ~ok THEN LaEnded("err")
                ELSE IF lists.result = "panic"
                THEN [LaEnded("panic") EXCEPT !.fetched = la.attendance]
                ELSE [la EXCEPT !.pc = "get_current_user",
                                !.fetched = la.attendance,
                                !.absent_list = lists.absent_list,
                                !.late_list = lists.late_list,
                                !.message = lists.message]
    /\ UNCHANGED <<now, main_pc, setup_at, process_up, loops, QueryVars, sim, env, served, su, hs>>

\* send_lab_closed_message / send_attendance_report: the bot's user is
\* fetched for the embed.
LaGetCurrentUser(ok) ==
    /\ la.pc = "get_current_user"
    /\ la' = IF ok THEN [la EXCEPT !.pc = "send_message"] ELSE LaEnded("err")
    /\ UNCHANGED <<now, main_pc, setup_at, process_up, loops, QueryVars, sim, env, served, su, hs>>

\* send_lab_closed_message / send_attendance_report: the message is sent.
LaSendMessage(ok) ==
    /\ la.pc = "send_message"
    /\ la' = IF ok THEN [LaEnded("ok") EXCEPT !.sent = <<la.message>>] ELSE LaEnded("err")
    /\ UNCHANGED <<now, main_pc, setup_at, process_up, loops, QueryVars, sim, env, served, su, hs>>

\* A run of check_lab_attendance on any attendance list, on a host whose
\* calendar serves parse_time or fails it.
LabInit ==
    /\ now = 18 * HourSecs
    /\ main_pc = "serving"
    /\ setup_at = Len(setup_calls)
    /\ process_up = TRUE
    /\ loops = <<>>
    /\ q_hour = 0
    /\ q_minute = 0
    /\ q_task = "none"
    /\ q_result = -1
    /\ q_calls = 0
    /\ sim = SimOff
    /\ env = EnvOk
    /\ served = NoneServed
    /\ su = SuOff
    /\ \E attendance \in AttendanceLists : \E host_offset \in HostOffsets :
          \E faults \in {{}, {"local_time"}} :
              la = LaStart(attendance, host_offset, faults)
    /\ hs = HsOff

LabNext ==
    \/ \E ok \in BOOLEAN : LaFetchAttendance(ok)
    \/ \E ok \in BOOLEAN : LaGetCurrentUser(ok)
    \/ \E ok \in BOOLEAN : LaSendMessage(ok)

SpecLab == LabInit /\ [][LabNext]_vars

\* get_leaderboard_stats: the streaks are fetched.
HsFetchStreaks(ok) ==
    /\ hs.pc = "fetch_streaks"
    /\ hs' = IF ok THEN [hs EXCEPT !.pc = "all_time", !.fetched = hs.streaks]
             ELSE [hs EXCEPT !.pc = "done", !.result = "err"]
    /\ UNCHANGED <<now, main_pc, setup_at, process_up, loops, QueryVars, sim, env, served, su, la>>

\* get_leaderboard_stats: the all-time high is found.
HsAllTime ==
    /\ hs.pc = "all_time"
    /\ hs' = [hs EXCEPT !.pc = "current",
                        !.all_time = find_highest_streak(hs.fetched, member_map(hs.members), TRUE)]
    /\ UNCHANGED <<now, main_pc, setup_at, process_up, loops, QueryVars, sim, env, served, su, la>>

\* get_leaderboard_stats: the current highest is found, and the four values
\* are returned.
HsCurrent ==
    /\ hs.pc = "current"
    /\ hs' = [hs EXCEPT !.pc = "done", !.result = "ok",
                        !.current = find_highest_streak(hs.fetched, member_map(hs.members), FALSE)]
    /\ UNCHANGED <<now, main_pc, setup_at, process_up, loops, QueryVars, sim, env, served, su, la>>

\* A call of get_leaderboard_stats on any member list and streak list.
LeaderboardInit ==
    /\ now = 5 * HourSecs
    /\ main_pc = "serving"
    /\ setup_at = Len(setup_calls)
    /\ process_up = TRUE
    /\ loops = <<>>
    /\ q_hour = 0
    /\ q_minute = 0
    /\ q_task = "none"
    /\ q_result = -1
    /\ q_calls = 0
    /\ sim = SimOff
    /\ env = EnvOk
    /\ served = NoneServed
    /\ su = SuOff
    /\ la = LaOff
    /\ \E members \in LeaderboardMembers : \E streaks \in StreakLists :
          hs = HsStart(members, streaks)

LeaderboardNext ==
    \/ \E ok \in BOOLEAN : HsFetchStreaks(ok)
    \/ HsAllTime
    \/ HsCurrent

SpecLeaderboard == LeaderboardInit /\ [][LeaderboardNext]_vars

(***************************************************************************)
(* The clock utilities on their own: a query fixes "now" and a target and  *)
(* asks for the duration once.                                             *)
(***************************************************************************)
QueryMinutes == {m \in 0..59 : m % MinuteStep = 0} \cup {59}

QueryNows ==
    {d * DayLen + h * HourSecs + m * 60 + s :
        d \in 0..QueryDays, h \in 0..23, m \in QueryMinutes, s \in {0, 1, 59}}

ClockInit ==
    /\ now \in QueryNows
    /\ main_pc = "connecting"
    /\ setup_at = 0
    /\ process_up = TRUE
    /\ loops = <<>>
    /\ \/ q_task = "none" /\ q_hour \in 0..23 /\ q_minute \in QueryMinutes
       \/ q_task \in TaskNames /\ q_hour = 0 /\ q_minute = 0
       \/ q_task = "most_recent_occurrence" /\ q_hour \in 0..23 /\ q_minute \in QueryMinutes
       \/ /\ q_task = "get_report_config"
          /\ q_hour = get_report_config(now).hour
          /\ q_minute = get_report_config(now).minute
    /\ q_result = -1
    /\ q_calls = 0
    /\ sim = SimOff
    /\ env = EnvOk
    /\ served = NoneServed
    /\ su = SuOff
    /\ la = LaOff
    /\ hs = HsOff

\* time_until(hour, minute) is called.
QueryTimeUntil ==
    /\ q_task = "none"
    /\ q_result = -1
    /\ q_result' = time_until(q_hour, q_minute)
    /\ q_calls' = 1
    /\ UNCHANGED <<now, main_pc, process_up, loops, q_hour, q_minute, q_task, sim, env, served, su, la, hs, setup_at>>

\* A job's run_in is called.
QueryRunIn ==
    /\ q_task \in TaskNames
    /\ q_result = -1
    /\ q_result' = run_in(q_task)
    /\ q_calls' = 1
    /\ UNCHANGED <<now, main_pc, process_up, loops, q_hour, q_minute, q_task, sim, env, served, su, la, hs, setup_at>>

\* most_recent_occurrence(hour, minute) is called.
QueryMostRecent ==
    /\ q_task = "most_recent_occurrence"
    /\ q_calls = 0
    /\ q_result' = most_recent_occurrence(now, q_hour, q_minute)
    /\ q_calls' = 1
    /\ UNCHANGED <<now, main_pc, process_up, loops, q_hour, q_minute, q_task, sim, env, served, su, la, hs, setup_at>>

\* get_report_config is called (by is_valid_status_update, for a message).
QueryReportConfig ==
    /\ q_task = "get_report_config"
    /\ q_calls = 0
    /\ q_result' = get_report_config(now).time_valid_from
    /\ q_calls' = 1
    /\ UNCHANGED <<now, main_pc, process_up, loops, q_hour, q_minute, q_task, sim, env, served, su, la, hs, setup_at>>

ClockNext ==
    \/ QueryTimeUntil
    \/ QueryRunIn
    \/ QueryMostRecent
    \/ QueryReportConfig

SpecClock == ClockInit /\ [][ClockNext]_vars

(***************************************************************************)
(* Properties.                                                             *)
(***************************************************************************)
AllLoopIds == 1..Len(registered_tasks)

\* The loop's record, also before the scheduler has spawned it.
LoopAt(l) ==
    IF l \in LoopIds THEN loops[l]
    ELSE [task |-> "none", pc |-> "UNSPAWNED", sleep_left |-> 0, last |-> "none",
          started_at |-> -1, prev_slow |-> FALSE]

\* The loop starts an execution in this step.
Starts(l) == loops[l].pc # "RUNNING" /\ loops'[l].pc = "RUNNING"

\* The loop's execution ends in this step with the given outcome.
EndsWith(l, outcome) ==
    /\ loops[l].pc = "RUNNING"
    /\ loops'[l].pc # "RUNNING"
    /\ loops'[l].last = outcome

\* The seconds that pass in this step.
Elapsed == (now' - now + DayLen) % DayLen

\* C1: at most one execution of a job is in flight: whenever a loop starts
\* an execution it comes from WAITING with its delay elapsed (so its
\* previous run has completed and its next delay was computed), and no other
\* execution of the same job is in flight.
C1_RunsOfAJobAreSequential ==
    [][\A l \in LoopIds :
          Starts(l) =>
            /\ loops[l].pc = "WAITING"
            /\ loops[l].sleep_left = 0
            /\ \A k \in LoopIds \ {l} :
                  loops[k].task = loops[l].task => loops'[k].pc # "RUNNING"]_vars

\* C1 witness: a job is in its second or later run.
C1_Witness ==
    \E l \in LoopIds : loops[l].pc = "RUNNING" /\ loops[l].last \in {"ok", "err"}

\* C2: an execution that ends with a failure value leaves its own loop at
\* IDLE (ready to compute its next delay), leaves every other loop and the
\* process untouched; a run of one of the two report jobs in which a remote
\* operation fails does end with a failure value; the failed job is executed
\* again at its time of day, and a waiting sibling is still executed.
C2_FailureIsolation ==
    /\ [][\A l \in LoopIds :
            loops[l].task \in {report_jobs[i] : i \in 1..Len(report_jobs)} =>
              \A faults \in (SUBSET (OpsOf(loops[l].task) \cap RemoteOps)) \ {{}} :
                  Complete(l, faults) => (loops'[l].last = "err" /\ loops'[l].pc = "IDLE")]_vars
    /\ [][\A l \in LoopIds :
            EndsWith(l, "err") =>
              /\ loops'[l].pc = "IDLE"
              /\ process_up'
              /\ \A k \in LoopIds \ {l} : loops'[k] = loops[k]]_vars
    /\ \A l \in AllLoopIds :
          (LoopAt(l).pc = "IDLE" /\ LoopAt(l).last = "err")
            ~> (LoopAt(l).pc = "RUNNING"
                /\ LoopAt(l).started_at = TargetTimeOfDay(LoopAt(l).task))
    /\ \A k \in AllLoopIds :
          (LoopAt(k).pc = "WAITING" /\ \E l \in AllLoopIds \ {k} : LoopAt(l).last = "err")
            ~> (LoopAt(k).pc = "RUNNING")

\* C2 witness: a job whose last run failed has started again at its time
\* of day, and a sibling with another time of day has started since that
\* failure and is still executing.
C2_Witness ==
    \E l \in LoopIds : \E k \in LoopIds \ {l} :
        /\ loops[l].pc = "RUNNING"
        /\ loops[l].last = "err"
        /\ loops[l].started_at = now
        /\ ~loops[l].prev_slow
        /\ loops[k].pc = "RUNNING"
        /\ loops[k].started_at # loops[l].started_at

\* C3: a job whose delay has elapsed starts before the clock moves, whatever
\* the other jobs are doing, and the clock runs down every sleeping job's
\* delay alike.
C3_WakeUpIsIndependent ==
    [][\A l \in LoopIds :
          /\ (loops[l].pc = "WAITING" /\ loops[l].sleep_left = 0)
                => (loops'[l].pc = "RUNNING" \/ (now' = now /\ loops'[l] = loops[l]))
          /\ (loops[l].pc = "WAITING" /\ now' # now)
                => (loops'[l].pc = "WAITING"
                    /\ loops'[l].sleep_left = loops[l].sleep_left - Elapsed)]_vars

\* C3 witness: a job starts at its due time while another job, started at
\* another time, is still executing.
C3_Witness ==
    \E l \in LoopIds : \E k \in LoopIds \ {l} :
        /\ loops[l].pc = "RUNNING"
        /\ loops[l].started_at # now
        /\ loops[k].pc = "RUNNING"
        /\ loops[k].started_at = now
        /\ loops[k].started_at = TargetTimeOfDay(loops[k].task)

\* C4: a panic inside one job's execution leaves the process up and every
\* other loop as it was.
C4_PanicIsIsolated ==
    /\ [](process_up)
    /\ [][\A l \in LoopIds :
            EndsWith(l, "panic") =>
              /\ process_up'
              /\ \A k \in LoopIds \ {l} : loops'[k] = loops[k]]_vars

\* C4 witness: after a job panicked, a sibling has started an execution.
C4_Witness ==
    \E l \in LoopIds : \E k \in LoopIds \ {l} :
        /\ loops[l].last = "panic"
        /\ loops[l].started_at # now
        /\ loops[k].pc = "RUNNING"
        /\ loops[k].started_at = now
        /\ process_up

\* C5 (as claimed): an execution in which an operation of the remote data
\* API or of the messaging platform fails ends with a failure value, and
\* its loop and the process go on.
C5_FaultsBecomeFailureValues ==
    [][\A l \in LoopIds :
          \A faults \in (SUBSET (OpsOf(loops[l].task) \cap RemoteOps)) \ {{}} :
              Complete(l, faults) =>
                /\ loops'[l].last = "err"
                /\ loops'[l].pc = "IDLE"
                /\ process_up']_vars

\* C6 (as claimed): a loop starts in IDLE and only ever goes IDLE ->
\* WAITING -> RUNNING -> IDLE; no other state is reached.
C6_OnlyTheCycle ==
    [][/\ \A l \in (DOMAIN loops') \ LoopIds : loops'[l].pc = "IDLE"
       /\ \A l \in LoopIds :
             \/ loops'[l].pc = loops[l].pc
             \/ <<loops[l].pc, loops'[l].pc>> \in
                   {<<"IDLE", "WAITING">>, <<"WAITING", "RUNNING">>, <<"RUNNING", "IDLE">>}]_vars

\* C7 (as claimed): under fair scheduling every job the scheduler has
\* spawned a loop for is executed again and again, for ever.
C7_EveryJobRunsForever ==
    \A l \in AllLoopIds :
        [](LoopAt(l).pc # "UNSPAWNED" => <>(LoopAt(l).pc = "RUNNING"))

\* What a query must return: the time from now to the target time of day,
\* today when now is before it, otherwise tomorrow.
ExpectedDuration(target) ==
    IF (now % DayLen) < target
    THEN target - (now % DayLen)
    ELSE target + DayLen - (now % DayLen)

\* C8: duration_until returns (target today - now) when now is before the
\* target time of day and (target tomorrow - now) otherwise, for every
\* (hour, minute) and for the jobs' own run_in; 05:00 asked at 04:00 is one
\* hour away and asked at 06:00 is 23 hours away.
C8_DurationUntilIsExact ==
    q_result # -1 =>
        /\ q_task = "none" => q_result = ExpectedDuration(q_hour * HourSecs + q_minute * 60)
        /\ q_task \in TaskNames => q_result = ExpectedDuration(TargetTimeOfDay(q_task))
        /\ (q_task = "Status Update Check" /\ (now % DayLen) = 4 * HourSecs)
              => q_result = HourSecs
        /\ (q_task = "Status Update Check" /\ (now % DayLen) = 6 * HourSecs)
              => q_result = 23 * HourSecs

\* C8 witness: the 05:00 job asked at 06:00 answers 23 hours.
C8_Witness ==
    /\ q_task = "Status Update Check"
    /\ (now % DayLen) = 6 * HourSecs
    /\ q_result = 23 * HourSecs

\* C9: duration_until is greater than zero and at most 24 hours, and is a
\* full 24 hours when now is the target instant.
C9_DurationUntilIsPositive ==
    (q_result # -1 /\ q_task = "none") =>
        /\ q_result > 0
        /\ q_result <= DayLen
        /\ (now % DayLen) = q_hour * HourSecs + q_minute * 60 => q_result = DayLen

\* C9 witness: a query made at the target instant has answered 24 hours.
C9_Witness ==
    /\ q_task = "none"
    /\ (now % DayLen) = q_hour * HourSecs + q_minute * 60
    /\ q_result = DayLen

\* C10: every execution of a job starts at the job's time of day.
C10_RunsStartAtTheTargetTime ==
    \A l \in LoopIds :
        loops[l].pc = "RUNNING" => loops[l].started_at = TargetTimeOfDay(loops[l].task)

\* C10 witness: a job starts on time after a previous run of it that took
\* time.
C10_Witness ==
    \E l \in LoopIds :
        /\ loops[l].pc = "RUNNING"
        /\ loops[l].started_at = now
        /\ loops[l].started_at = TargetTimeOfDay(loops[l].task)
        /\ loops[l].last \in {"ok", "err"}
        /\ loops[l].prev_slow

\* The executions of loop l the scenario has seen start, and seen end.
StartsOf(l) == Cardinality({i \in DOMAIN sim.log : sim.log[i] = <<l, "start">>})

EndsOf(l) ==
    Cardinality({i \in DOMAIN sim.log : sim.log[i][1] = l /\ sim.log[i][2] # "start"})

\* The position in the scenario's log of the first start of loop l.
FirstStart(l) == Min({i \in DOMAIN sim.log : sim.log[i] = <<l, "start">>})

\* C11: with the 05:00 and the 18:00 jobs registered together and the clock
\* advanced by 24 hours from the scheduler's start, no job starts a second
\* execution within the span, and the scenario ends with the 24 hours
\* elapsed and every job executed exactly once and that execution ended,
\* whatever the outcomes of the executions (the scheduler is not started
\* when setup fails before it).
C11_OnceEachInTwentyFourHours ==
    /\ [](\A l \in LoopIds : StartsOf(l) <= 1 /\ EndsOf(l) <= StartsOf(l))
    /\ [](sim.elapsed <= DayLen)
    /\ <>[](\/ main_pc = "setup_failed"
            \/ /\ sim.elapsed = DayLen
               /\ \A l \in AllLoopIds : l \in LoopIds /\ StartsOf(l) = 1 /\ EndsOf(l) = 1)

\* C11 witness: the 24 hours are over, every job has executed once, the
\* 18:00 job before the 05:00 job of tasks/status_update.rs, and the first
\* of the two failed.
C11_Witness ==
    /\ sim.on
    /\ sim.elapsed = DayLen
    /\ \A l \in AllLoopIds : l \in LoopIds /\ StartsOf(l) = 1 /\ EndsOf(l) = 1
    /\ \E l \in LoopIds : \E k \in LoopIds :
          /\ loops[l].task = "Lab Attendance Check"
          /\ loops[k].task = "Status Update Check"
          /\ FirstStart(l) < FirstStart(k)
          /\ loops[l].last = "err"
          /\ loops[k].last = "ok"

\* The lookback instants asked for: by most_recent_occurrence, and by the
\* status-update job for its cutoff of 20:00.
LookbackQueries == {"most_recent_occurrence", "get_report_config"}

\* C13 (as claimed): a lookback instant is the latest instant at or before
\* now whose time of day is hour:minute: never after now, less than 24 hours
\* before it, today's occurrence when now is at or after it and yesterday's
\* otherwise.
C13_MostRecentOccurrence ==
    (q_task \in LookbackQueries /\ q_calls >= 1) =>
        /\ q_result <= now
        /\ now - q_result < DayLen
        /\ (q_result + DayLen) % DayLen = q_hour * HourSecs + q_minute * 60
        /\ q_result = IF now >= TodayAt(now, q_hour, q_minute)
                      THEN TodayAt(now, q_hour, q_minute)
                      ELSE TodayAt(now, q_hour, q_minute) - DayLen

\* C13, for most_recent_occurrence alone.
C13_MostRecentOccurrenceOfTheClock ==
    (q_task = "most_recent_occurrence" /\ q_calls >= 1) =>
        /\ q_result <= now
        /\ now - q_result < DayLen
        /\ (q_result + DayLen) % DayLen = q_hour * HourSecs + q_minute * 60

\* C14: once the scheduler is started inside setup, the return of setup is
\* enabled whatever the loops do, and setup completes; when setup has
\* returned and a job is WAITING or RUNNING the event handler can take any
\* event and every handler in flight can take its next step; and a step of
\* a handler leaves every loop, the clock and the process as they were.
C14_SchedulerDoesNotBlock ==
    /\ []((main_pc = "connecting" /\ loops # <<>>) => ENABLED SetupReturn)
    /\ (loops # <<>>) ~> (main_pc = "serving")
    /\ []((/\ main_pc = "serving"
           /\ \E l \in LoopIds : loops[l].pc \in {"WAITING", "RUNNING"}) =>
            /\ BagCardinality(served.handlers) < MaxHandlers =>
                  \A event \in Events : ENABLED HandleEvent(event)
            /\ \A handler \in BagToSet(served.handlers) :
                  ENABLED (\E ok \in BOOLEAN : HandlerMember(handler, ok) \/ HandlerRole(handler, ok)))
    /\ [][served' # served =>
            /\ loops' = loops /\ now' = now /\ process_up'
            /\ main_pc = "serving"]_vars

\* C14 witness: a reaction on the roles message has given the member the
\* role and another handler is between its two platform calls, while one
\* job is RUNNING and another WAITING.
C14_Witness ==
    /\ served.roles = {"MOBILE_ROLE"}
    /\ \E handler \in BagToSet(served.handlers) : handler.stage = "role"
    /\ {"RUNNING", "WAITING"} \subseteq {loops[l].pc : l \in LoopIds}

\* A loop is WAITING while setup has not returned.
LoopStepsBeforeSetupReturns ==
    /\ main_pc = "connecting"
    /\ \E l \in LoopIds : loops[l].pc = "WAITING"

C16_ConfigErrorsAreFatal ==
    (\E setting \in RequiredSettings : env[setting] # "ok") =>
        /\ main_pc # "serving"
        /\ loops = <<>>
        /\ \A l \in LoopIds : loops[l].pc # "RUNNING"

\* C16, for the settings main reads itself.
C16_ConfigErrorsOfMainAreFatal ==
    (\E setting \in RequiredSettings \ {"ROOT_URL"} : env[setting] # "ok") =>
        /\ main_pc \in {"start", "starting_client", "aborted"}
        /\ loops = <<>>

\* The positions of the run's log that hold the operation op.
LogAt(op) == {i \in DOMAIN su.log : su.log[i].op = op}

\* The mutations op issued for member m, and those that succeeded.
Issued(op, m) == {i \in LogAt(op) : su.log[i].arg = m.member_id}

Succeeded(op, m) == {i \in Issued(op, m) : su.log[i].ok}

\* The member is the author of a valid update among the posted messages.
SentAnUpdate(m) ==
    \E i \in DOMAIN su.posted : su.posted[i].valid /\ su.posted[i].author = m.discord_id

\* Every position of A is before every position of B.
AllBefore(A, B) == \A i \in A : \A j \in B : i < j

\* C17: in a run of the status-update job the updates are fetched, then the
\* members, then the increments are issued, then the resets, then the report
\* is built and sent; no member gets more than one mutation, an increment
\* goes only to a member who sent an update and a reset only to one who did
\* not; when the report is sent every member has had its one mutation and
\* all succeeded; a failed operation is the last the run issues and ends it
\* with a failure; and what was issued stays issued.
C17_StatusUpdateStepsAreOrdered ==
    /\ [](su.pc # "off" =>
            /\ AllBefore(LogAt("channel_messages"), LogAt("fetch_members"))
            /\ AllBefore(LogAt("fetch_members"), LogAt("increment") \cup LogAt("reset"))
            /\ AllBefore(LogAt("increment"), LogAt("reset"))
            /\ AllBefore(LogAt("increment") \cup LogAt("reset"), LogAt("fetch_streaks"))
            /\ AllBefore(LogAt("fetch_streaks"), LogAt("send_message"))
            /\ \A i \in DOMAIN su.log :
                  ~su.log[i].ok => (i = Len(su.log) /\ su.pc = "done" /\ su.result = "err")
            /\ \A k \in DOMAIN su.roster :
                  LET m == su.roster[k]
                  IN /\ Cardinality(Issued("increment", m)) <= (IF SentAnUpdate(m) THEN 1 ELSE 0)
                     /\ Cardinality(Issued("reset", m)) <= (IF SentAnUpdate(m) THEN 0 ELSE 1)
                     /\ LogAt("send_message") # {} =>
                          /\ Cardinality(Succeeded("increment", m))
                                = (IF SentAnUpdate(m) THEN 1 ELSE 0)
                          /\ Cardinality(Succeeded("reset", m))
                                = (IF SentAnUpdate(m) THEN 0 ELSE 1)
            /\ su.result = "ok" => (LogAt("send_message") # {} /\ su.log[Len(su.log)].ok))
    /\ [][su.pc # "off" =>
            /\ Len(su'.log) = Len(su.log) + 1
            /\ SubSeq(su'.log, 1, Len(su.log)) = su.log
            /\ su'.result = "err" =>
                  (su'.nice_list = su.nice_list /\ su'.naughty_list = su.naughty_list)]_vars

\* C17 witness: a run has sent its report after one increment and resets in
\* two groups.
C17_Witness ==
    /\ su.pc = "done"
    /\ su.result = "ok"
    /\ Cardinality(LogAt("increment")) = 1
    /\ Cardinality(LogAt("reset")) = 2
    /\ Cardinality(DOMAIN su.naughty_list) = 2

\* A run stopped by a failed reset, after an increment and a reset that
\* succeeded: no report is sent and the increment stays.
StoppedByAFailedReset ==
    /\ su.pc = "done"
    /\ su.result = "err"
    /\ Cardinality(LogAt("increment")) = 1
    /\ Cardinality(LogAt("reset")) = 2
    /\ su.log[Len(su.log)].op = "reset"
    /\ LogAt("send_message") = {}
    /\ su.nice_list[1].streak # su.roster[1].streak

\* The member the next mutation of the run is for, and that member after
\* the step.
MutatedMember ==
    IF Head(su.work).op = "increment" THEN su.nice_list[Head(su.work).index]
    ELSE su.naughty_list[Head(su.work).group][Head(su.work).index]

MutatedMemberAfter ==
    IF Head(su.work).op = "increment" THEN su'.nice_list[Head(su.work).index]
    ELSE su'.naughty_list[Head(su.work).group][Head(su.work).index]

\* The response fails in some way.
IsFailure(r) ==
    ~r.root_url \/ ~r.sent \/ ~r.success \/ ~r.json \/ ~r.data \/ ~r.has_current \/ ~r.has_max

Absent(record) == ~record.is_present \/ ~record.time_in.some

\* The members of a list.
Range(list) == {list[i] : i \in DOMAIN list}

\* C19: a successful lab-attendance run has sent exactly one message: the
\* lab-closed message when every record is absent (an empty list included),
\* the attendance report otherwise; the absent list holds exactly the
\* absent records, so the late list shares no record with it, and a present
\* record whose arrival time does not parse is in neither; a run that has
\* not ended has sent nothing, and a run sends only as its last step.
C19_OneMessagePerRun ==
    /\ []((la.pc = "done" /\ la.result = "ok") =>
            /\ Len(la.sent) = 1
            /\ la.sent[1] =
                  (IF \A i \in DOMAIN la.fetched : Absent(la.fetched[i])
                   THEN "lab_closed" ELSE "attendance_report")
            /\ la.fetched = la.attendance
            /\ Range(la.absent_list) = {r \in Range(la.fetched) : Absent(r)}
            /\ Range(la.late_list) \subseteq {r \in Range(la.fetched) : ~Absent(r)}
            /\ Range(la.absent_list) \cap Range(la.late_list) = {}
            /\ \A r \in Range(la.fetched) :
                  (r.is_present /\ r.time_in.some /\ r.time_in.h > 23) =>
                      (r \notin Range(la.absent_list) /\ r \notin Range(la.late_list)))
    /\ []((la.pc \notin {"off", "done"} \/ la.result # "ok") => la.sent = <<>>)
    /\ [][la.sent' # la.sent => (la.pc = "send_message" /\ la.pc' = "done")]_vars

\* C19 witness: a run has sent the attendance report for a list with a late
\* record and a present record whose arrival time does not parse.
C19_Witness ==
    /\ la.pc = "done"
    /\ la.result = "ok"
    /\ la.sent = <<"attendance_report">>
    /\ Len(la.late_list) = 1
    /\ la.absent_list = <<>>
    /\ Len(la.fetched) = 2

\* A run on the empty attendance list has sent the lab-closed message.
LabClosedOnAnEmptyList ==
    /\ la.pc = "done"
    /\ la.attendance = <<>>
    /\ la.sent = <<"lab_closed">>

\* fetch_members has succeeded and the members are categorized.
Categorized == \E i \in LogAt("fetch_members") : su.log[i].ok

\* The member's discord id is the author id of an update.
AuthorOfAnUpdate(m) == \E i \in DOMAIN su.updates : su.updates[i].author = m.discord_id

\* The places of the member in the nice list, and in the defaulter list as
\* pairs of the group key and the position under it.
PlacesInNice(m) == {i \in DOMAIN su.nice_list : su.nice_list[i].member_id = m.member_id}

PlacesInNaughty(m) ==
    {p \in UNION {{<<group, j>> : j \in DOMAIN su.naughty_list[group]} :
                    group \in DOMAIN su.naughty_list} :
        su.naughty_list[p[1]][p[2]].member_id = m.member_id}

\* The 64-bit unsigned key is the number id.
IsGroupId(key, id) ==
    /\ key[1] = 0
    /\ key[2] = 0
    /\ key[3] < 32768
    /\ key[3] * 65536 + key[4] = id

\* Every fetched member has exactly one place in the two lists, in the nice
\* list exactly when it is the author of an update.
InExactlyOneList ==
    \A k \in DOMAIN su.roster :
        LET m == su.roster[k]
        IN /\ Cardinality(PlacesInNice(m)) + Cardinality(PlacesInNaughty(m)) = 1
           /\ PlacesInNice(m) # {} <=> AuthorOfAnUpdate(m)

\* C20: once the members are categorized, every fetched member is in
\* exactly one of the nice list and the defaulter list, in the nice list
\* exactly when its discord id is the author id of an update, and every
\* defaulter is filed under the key that is its own group id.
C20_MembersArePartitioned ==
    Categorized =>
        /\ InExactlyOneList
        /\ \A k \in DOMAIN su.roster :
              \A p \in PlacesInNaughty(su.roster[k]) :
                  IsGroupId(p[1], su.roster[k].group_id)

\* C20, with every defaulter filed under the cast of its group id.
C20_MembersArePartitionedUnderTheCast ==
    Categorized =>
        /\ InExactlyOneList
        /\ \A k \in DOMAIN su.roster :
              \A p \in PlacesInNaughty(su.roster[k]) :
                  p[1] = as_u64(su.roster[k].group_id)

\* The members are categorized, with a member in each list and defaulters
\* of two groups.
CategorizedInBothLists ==
    /\ Categorized
    /\ su.nice_list # <<>>
    /\ Cardinality(DOMAIN su.naughty_list) = 2

\* The positions of the fetched streaks whose member id is a known member.
KnownStreaks == {i \in DOMAIN hs.fetched :
                    \E k \in DOMAIN hs.members : hs.members[k].member_id = hs.fetched[i].member_id}

\* The selected value of the i-th fetched streak.
StreakValue(i, is_all_time) ==
    IF is_all_time THEN hs.fetched[i].max_streak ELSE hs.fetched[i].current_streak

\* The greatest of 0 and the selected values of the known streaks.
HighestKnown(is_all_time) ==
    LET values == {0} \cup {StreakValue(i, is_all_time) : i \in KnownStreaks}
    IN CHOOSE v \in values : \A w \in values : w <= v

\* The members of the known streaks whose selected value is v, in the order
\* of the streaks.
RECURSIVE MembersAt(_, _, _)
MembersAt(i, v, is_all_time) ==
    IF i > Len(hs.fetched) THEN <<>>
    ELSE IF i \in KnownStreaks /\ StreakValue(i, is_all_time) = v
    THEN <<member_map(hs.members)[hs.fetched[i].member_id]>> \o MembersAt(i + 1, v, is_all_time)
    ELSE MembersAt(i + 1, v, is_all_time)

\* The result out is the one the selection is_all_time should give.
IsHighest(out, is_all_time) ==
    /\ out.highest = HighestKnown(is_all_time)
    /\ out.members = MembersAt(1, out.highest, is_all_time)
    /\ (\A i \in KnownStreaks : StreakValue(i, is_all_time) < 0) =>
          (out.highest = 0 /\ out.members = <<>>)

\* C21: find_highest_streak returns the greatest of 0 and the selected
\* value (maximum streak when all-time, current streak otherwise) of the
\* streaks of known members, with the members of exactly the known streaks
\* that have this value, in input order; streaks of unknown members are
\* ignored, and when every known value is negative or there is none the
\* result is 0 with no member.
C21_HighestStreakIsTheMaximum ==
    /\ (hs.pc \in {"current", "done"} /\ hs.result # "err") => IsHighest(hs.all_time, TRUE)
    /\ (hs.pc = "done" /\ hs.result = "ok") => IsHighest(hs.current, FALSE)

\* C21 witness: the leaderboard is computed from three streaks, one of an
\* unknown member; two known members share the all-time high, and one holds
\* the current highest.
C21_Witness ==
    /\ hs.pc = "done"
    /\ hs.result = "ok"
    /\ Len(hs.fetched) = 3
    /\ Cardinality(KnownStreaks) = 2
    /\ hs.all_time.highest = 2
    /\ Len(hs.all_time.members) = 2
    /\ hs.all_time.members[1] # hs.all_time.members[2]
    /\ hs.current.highest = 2
    /\ Len(hs.current.members) = 1

\* The leaderboard of streaks that are all negative or of unknown members:
\* 0 and no member.
NoHighestMember ==
    /\ hs.pc = "done"
    /\ hs.result = "ok"
    /\ Len(hs.fetched) = 3
    /\ KnownStreaks # {}
    /\ hs.current = [highest |-> 0, members |-> <<>>]

\* A member with two streaks at the highest value is listed twice.
ListedTwice ==
    /\ hs.pc = "done"
    /\ hs.result = "ok"
    /\ Len(hs.current.members) = 2
    /\ hs.current.members[1] = hs.current.members[2]

====
